---- MODULE Spec2Model ----
(***************************************************************************)
(* Client side of the encrypted blog: key capture from the URL fragment,   *)
(* loading of the root document, the loaders of images, panoramas and      *)
(* maps, the tile layer of a map, and the framing of AES-GCM decryption.   *)
(*                                                                         *)
(* The specifications share the variables:                                 *)
(*   SpecPage   - page loads of one browsing session: the capture step and *)
(*                the DOMContentLoaded handler (index.js / load.js);       *)
(*   SpecImages - the image loaders: the observer's callback (or the eager *)
(*                loop of www/decrypt.js), the fetch+decrypt tasks and the *)
(*                images' load events;                                     *)
(*   SpecPanos  - the panorama observer's and the map observer's callback, *)
(*                their tasks and the viewers' ready events;               *)
(*   SpecPanosLive - SpecPanos with weak fairness of the page's own steps; *)
(*   SpecTiles  - createTile of the map's tile layer and its 'tileload'    *)
(*                listener;                                                *)
(*   SpecCodec  - one call of decrypt on a published or altered input.     *)
(* JavaScript runs each continuation to completion, so an action is one    *)
(* such continuation; the points between actions are the awaits.           *)
(***************************************************************************)
EXTENDS Integers, Sequences, FiniteSets, TLC

VARIABLES
    \* ---- page (SpecPage) ----
    variant,      \* "index": assets/src/index.js, "load": www/load.js
    fragment,     \* the fragment the current page was opened with
    hash,         \* location.hash without '#', as the address bar shows it
    path,         \* location.pathname
    storedDir,    \* sessionStorage 'dir' (NoDir: getItem returns null)
    storedKey,    \* sessionStorage 'key' (NoKey: getItem returns null)
    captured,     \* whether the capture step of this page load stored a key
    pc,           \* position of the page's script
    body,         \* number of <article> containers appended to the body
    unlocked,     \* body.classList contains 'unlocked'
    console,      \* lines written with console.log
    response,     \* what the server answered for 'content'
    content,      \* kinds of pending markers the decrypted document carries
    observed,     \* kinds of elements handed to an IntersectionObserver
    requests,     \* locators the page has passed to fetch in this page load
    persistent,   \* what the scripts wrote to storage that outlives the session
    \* ---- media (SpecMedia) ----
    loader,       \* image loader variant
    rich,         \* what the .media elements next to the images are
    decl,         \* image -> locator it declares (data-src value)
    decrypted,    \* locator -> handle kept by the eager loader (0: none)
    marker,       \* image -> data-src still present
    src,          \* image -> handle installed as src (0: none)
    loading,      \* image -> a 'load' event for the current src is pending
    visible,      \* element -> intersecting the (margin-extended) viewport
    pmarker,      \* panorama -> data-panorama still present
    viewers,      \* viewers and maps created:
                  \* [container, blob, ready, configured, layer]
    tasks,        \* fetch+decrypt tasks in flight
    delivered,    \* entries handed to observer callbacks so far
    nfetch,       \* network requests issued so far
    fetchedFor,   \* element -> requests issued on behalf of that element
    fetchedUrl,   \* locator -> requests issued for that locator
    triggered,    \* image -> a callback saw it intersecting and pending
    failed,       \* [url, error] of the tasks that rejected
    handles,      \* handle -> [url, from, owner, installed, revoked], in
                  \* creation order
    rejections,   \* unhandled promise rejections reported to the page
    \* ---- map tiles (SpecTiles) ----
    layerKey,     \* options.key of the tile layer: the derived HMAC key
    tileIndex,    \* options.tiles: the "zoom_x_y" strings of the tile index
    tiles,        \* the tile elements createTile has made, in creation order
    \* ---- one call of decrypt (SpecCodec) ----
    sealed,       \* how the input was made: [key, nonce, plain, change]
    input,        \* [key, data]: the imported key and the bytes to decrypt
    output        \* [called, ok, plain]: the result, once decrypt was called

pageVars == <<variant, fragment, hash, path, storedDir, storedKey, captured,
              pc, body, unlocked, console, response, content, observed,
              requests, persistent>>
mediaVars == <<loader, rich, decl, decrypted, marker, src, loading, visible, pmarker, viewers,
               tasks, delivered, nfetch, fetchedFor, fetchedUrl, triggered, failed,
               handles, rejections>>
tileVars == <<layerKey, tileIndex, tiles>>
codecVars == <<sealed, input, output>>
vars == <<pageVars, mediaVars, tileVars, codecVars>>

\* What the actions of one part leave alone.
notPage == <<mediaVars, tileVars, codecVars>>
notMedia == <<pageVars, tileVars, codecVars>>
notTiles == <<pageVars, mediaVars, codecVars>>
notCodec == <<pageVars, mediaVars, tileVars>>

----------------------------------------------------------------------------
(* Bounds *)

MaxBody == 43    \* longest run of plain characters a fragment starts with
MaxTail == 1     \* characters of arbitrary class that follow the run
MaxCoord == 0    \* largest x (column) of the tile grid
TileRow == 7     \* y (row) of the tiles the map shows
MaxTiles == 2    \* tile elements the layer is asked for in one run
MacBytes == 2    \* length of the stand-in for the HMAC digest
MaxPlain == 2    \* longest plaintext that is sealed
TagBytes == 2    \* length of the stand-in for the authentication tag
NImages == 2     \* observed <img data-src> elements
NPanos == 2      \* observed .panorama elements
MaxEntries == 3  \* observer entries delivered in one run

----------------------------------------------------------------------------
(* Base64.  A string is a sequence of characters; "A" stands for any       *)
(* letter or digit.                                                         *)

NoKey == <<"null">>

\* A null argument is converted to the string "null".
KeyString(key) == IF key = NoKey THEN <<"A", "A", "A", "A">> ELSE key

\* Character classes a fragment is made of: alphabet characters, the two
\* URL-safe substitutes and a character outside both alphabets.
Chars == {"A", "-", "_", "!"}

Alphabet == {"A", "+", "/"}

RECURSIVE Rep(_, _)
Rep(c, n) == IF n = 0 THEN <<>> ELSE <<c>> \o Rep(c, n - 1)

RECURSIVE Tails(_)
Tails(n) ==
    IF n = 0 THEN {<<>>}
    ELSE Tails(n - 1) \cup {t \o <<c>> : t \in Tails(n - 1), c \in Chars}

\* Fragments a page can be opened with: a run of alphabet characters, a few
\* characters of any class, and no, one or two '=' of padding.
Fragments ==
    {Rep("A", n) \o t \o Rep("=", p) :
        n \in 0..MaxBody, t \in Tails(MaxTail), p \in {0, 1, 2}}

\* String.prototype.replace(/x/g, y)
ReplaceAll(s, x, y) == [i \in 1..Len(s) |-> IF s[i] = x THEN y ELSE s[i]]

\* atob: when the length is a multiple of 4, one or two trailing '=' are
\* dropped; a remainder of 1 or a character outside the alphabet throws
\* (ok = FALSE); every 4 characters give 3 bytes, 2 or 3 left over give 1 or 2.
StripPadding(s) ==
    IF Len(s) % 4 = 0 /\ Len(s) > 0 /\ s[Len(s)] = "="
    THEN IF s[Len(s) - 1] = "="
         THEN SubSeq(s, 1, Len(s) - 2)
         ELSE SubSeq(s, 1, Len(s) - 1)
    ELSE s

atob(s) ==
    LET d == StripPadding(s)
        ok == Len(d) % 4 # 1 /\ \A i \in 1..Len(d) : d[i] \in Alphabet
    IN  [ok |-> ok, length |-> IF ok THEN (Len(d) * 6) \div 8 ELSE 0,
         bytes |-> IF ok THEN d ELSE <<>>]

----------------------------------------------------------------------------
(* Key capture and the root document (SpecPage) *)

Variants == {"index", "load"}

KeyBytesIndex == 32
KeyBytesLoad == 16

isValidKeyIndexNoUnderscore(key) ==
    LET decoded == atob(ReplaceAll(key, "-", "+"))
    IN  decoded.ok /\ decoded.length = KeyBytesIndex

\* index.js: atob(key.replace(/-/g, '+').replace(/_/g, '/')).length == 32,
\* false when atob throws
isValidKeyIndex(key) ==
    LET decoded == atob(ReplaceAll(ReplaceAll(key, "-", "+"), "_", "/"))
    IN  decoded.ok /\ decoded.length = KeyBytesIndex

\* load.js: atob(key).length == 16, false when atob throws
isValidKeyLoad(key) ==
    LET decoded == atob(key)
    IN  decoded.ok /\ decoded.length = KeyBytesLoad

isValidKey(v, key) ==
    IF v = "index" THEN isValidKeyIndex(key) ELSE isValidKeyLoad(key)

\* crypto.subtle.importKey("raw", bytes, "AES-GCM", ...) of atob(base64key):
\* atob throws on a bad encoding, importKey rejects a length that is no AES
\* key length.
AesKeyLengths == {16, 24, 32}

ImportError(key) ==
    LET decoded == atob(KeyString(key))
    IN  IF ~decoded.ok THEN "InvalidCharacterError"
        ELSE IF decoded.length \notin AesKeyLengths THEN "DataError"
        ELSE "none"

\* The key the published post was encrypted under, as raw key bytes.
PublisherKey(v) == IF v = "index" THEN Rep("A", 43) ELSE Rep("A", 22)

\* What a request can come back with: the fetch rejects (unreachable), a
\* non-success status with some body, a 200 whose body is not the published
\* ciphertext, or the published ciphertext.
Responses == {"unreachable", "status", "corrupt", "authentic"}

\* crypto.subtle.decrypt: the tag verifies only for the published ciphertext
\* under the key it was encrypted with.
DecryptOk(v, key, r) ==
    r = "authentic" /\ atob(KeyString(key)).bytes = PublisherKey(v)

\* The address of a page: location.pathname, then '#' and the fragment when
\* there is one.  Paths holds a directory address and a file address.
NoDir == <<"null">>

Paths == {<<"/", "a", "/">>, <<"/", "a", "/", "b">>}

Href(p, h) == IF h = <<>> THEN p ELSE p \o <<"#">> \o h

\* Position of the first occurrence of pat in s, 0 when there is none.
IndexOf(s, pat) ==
    LET at == {i \in 1..(Len(s) - Len(pat) + 1) :
                  SubSeq(s, i, i + Len(pat) - 1) = pat}
    IN  IF at = {} THEN 0 ELSE CHOOSE i \in at : \A j \in at : i <= j

\* String.prototype.replace(pattern, replacement) with a string pattern:
\* the first occurrence only.
ReplaceFirst(s, pat, r) ==
    LET i == IndexOf(s, pat)
    IN  IF i = 0 THEN s
        ELSE SubSeq(s, 1, i - 1) \o r \o SubSeq(s, i + Len(pat), Len(s))

\* location.pathname and location.hash (without '#') of an address.
Pathname(href) ==
    LET i == IndexOf(href, <<"#">>)
    IN  IF i = 0 THEN href ELSE SubSeq(href, 1, i - 1)

HashOf(href) ==
    LET i == IndexOf(href, <<"#">>)
    IN  IF i = 0 THEN <<>> ELSE SubSeq(href, i + 1, Len(href))

\* path.split('/'), reverse(), find(item => item): the last component that
\* is not empty; undefined is stored as the string "undefined".
getLastPathComponent(p) ==
    LET ends == {i \in 1..Len(p) : p[i] # "/" /\ (i = Len(p) \/ p[i + 1] = "/")}
    IN  IF ends = {} THEN <<"undefined">>
        ELSE LET e == CHOOSE i \in ends : \A j \in ends : j <= i
                 starts == {i \in 1..e : \A j \in i..e : p[j] # "/"}
                 b == CHOOSE i \in starts : \A j \in starts : i <= j
             IN  SubSeq(p, b, e)

InitPage ==
    /\ variant \in Variants
    /\ fragment = <<>>
    /\ hash = <<>>
    /\ path = <<"/">>
    /\ storedDir = NoDir
    /\ storedKey = NoKey
    /\ captured = FALSE
    /\ pc = "idle"
    /\ body = 0
    /\ unlocked = FALSE
    /\ console = <<>>
    /\ response = "none"
    /\ content = {}
    /\ observed = {}
    /\ requests = {}
    /\ persistent = {}

\* A page of the blog is opened (or reloaded) in the same session.
Navigate(p, f) ==
    /\ pc = "idle"
    /\ path' = p
    /\ fragment' = f
    /\ hash' = f
    /\ captured' = FALSE
    /\ pc' = "script"
    /\ body' = 0
    /\ unlocked' = FALSE
    /\ console' = <<>>
    /\ response' = "none"
    /\ content' = {}
    /\ observed' = {}
    /\ requests' = {}
    /\ UNCHANGED <<variant, storedKey, storedDir, persistent>>

\* The page is left: its document goes away, the session storage stays.
Leave ==
    /\ pc \in {"shown", "locked"}
    /\ pc' = "idle"
    /\ path' = <<"/">>
    /\ fragment' = <<>>
    /\ hash' = <<>>
    /\ captured' = FALSE
    /\ body' = 0
    /\ unlocked' = FALSE
    /\ console' = <<>>
    /\ response' = "none"
    /\ content' = {}
    /\ observed' = {}
    /\ requests' = {}
    /\ UNCHANGED <<variant, storedKey, storedDir, persistent>>

captureStripAlways(v, p, h, key) ==
    IF h # <<>> /\ isValidKey(v, h)
    THEN [path |-> p, hash |-> <<>>, key |-> h, ok |-> TRUE]
    ELSE [path |-> p, hash |-> <<>>, key |-> key, ok |-> FALSE]

captureForgetOnFail(v, p, h, key) ==
    IF h # <<>> /\ isValidKey(v, h)
    THEN [path |-> p, hash |-> <<>>, key |-> h, ok |-> TRUE]
    ELSE [path |-> p, hash |-> h, key |-> NoKey, ok |-> FALSE]

captureKeepHash(v, p, h, key) ==
    IF h # <<>> /\ isValidKey(v, h)
    THEN [path |-> p, hash |-> h, key |-> h, ok |-> TRUE]
    ELSE [path |-> p, hash |-> h, key |-> key, ok |-> FALSE]

\* let anchor = location.hash.substr(1);
\* if (anchor && isValidKey(anchor)) {
\*     sessionStorage.setItem('key', anchor);
\*     history.replaceState({}, '', location.href.replace(location.hash, '')); }
\* The result is the address and the stored key after the step.
capture(v, p, h, key) ==
    LET anchor == h
        href == Href(p, h)
        stripped == ReplaceFirst(href, <<"#">> \o h, <<>>)
    IN  IF anchor # <<>> /\ isValidKey(v, anchor)
        THEN [path |-> Pathname(stripped), hash |-> HashOf(stripped),
              key |-> anchor, ok |-> TRUE]
        ELSE [path |-> p, hash |-> h, key |-> key, ok |-> FALSE]

\* The script of the page runs: the capture step and, in load.js, the
\* sessionStorage.setItem('dir', ...) that follows it.
CaptureKey ==
    /\ pc = "script"
    /\ \E after \in {capture(variant, path, hash, storedKey)} :
           /\ path' = after.path
           /\ hash' = after.hash
           /\ storedKey' = after.key
           /\ captured' = after.ok
    /\ storedDir' = IF variant = "load" THEN getLastPathComponent(path)
                    ELSE storedDir
    /\ pc' = "loaded"
    /\ UNCHANGED <<variant, fragment, body, unlocked, console, response, content,
                   observed, requests, persistent>>

\* .catch(() => {}) in index.js, .catch(reason => console.log(reason)) in load.js
CatchRoot(v, reason) ==
    /\ pc' = "locked"
    /\ console' = IF v = "load" THEN Append(console, reason) ELSE console
    /\ UNCHANGED <<body, unlocked>>

\* .then(value => ...): index.js adds the class and appends, load.js appends.
ThenRoot(v) ==
    /\ pc' = "shown"
    /\ unlocked' = (v = "index")
    /\ body' = body + 1
    /\ UNCHANGED console

\* decryptContent(sessionStorage.getItem('key'), 'content')
ContentUrl == <<"content">>

fetchUrlWithKey(base64key, url) == url \o <<"#">> \o KeyString(base64key)

\* decryptContent(base64key, url) and the Decryptor's fetch(url): the locator
\* that reaches the network's fetch is the url argument, as it was given.
fetchUrl(base64key, url) == url

\* The DOMContentLoaded handler calls decryptContent.  The Decryptor of
\* index.js imports the key before the request; decrypt() of load.js imports
\* it after the response.
DOMContentLoaded ==
    /\ pc = "loaded"
    /\ IF variant = "index" /\ ImportError(storedKey) # "none"
       THEN /\ CatchRoot(variant, ImportError(storedKey))
            /\ UNCHANGED requests
       ELSE /\ pc' = "fetching"
            /\ requests' = requests \cup {fetchUrl(storedKey, ContentUrl)}
            /\ UNCHANGED <<body, unlocked, console>>
    /\ UNCHANGED <<variant, fragment, hash, path, storedDir, storedKey, captured,
                   response, content, observed, persistent>>

RootRespond(r) ==
    /\ pc = "fetching"
    /\ response' = r
    /\ IF r = "unreachable"
       THEN CatchRoot(variant, "TypeError")
       ELSE IF variant = "load" /\ ImportError(storedKey) # "none"
       THEN CatchRoot(variant, ImportError(storedKey))
       ELSE /\ pc' = "decrypting"
            /\ UNCHANGED <<body, unlocked, console>>
    /\ UNCHANGED <<variant, fragment, hash, path, storedDir, storedKey, captured,
                   content, observed, requests, persistent>>

\* Kinds of elements the published document marks as pending: <img data-src>,
\* .panorama[data-panorama] and [data-geojson], all inside .media.
MediaKinds == {"img", "panorama", "map"}

\* export { getCallback } of the module that decryptPanoramas imports.
PanoramaExports == {"getCallback"}

\* decryptContent of the Decryptor module: decryptImages observes the images;
\* decryptPanoramas imports "./panorama.js" and constructs the observer from
\* module.getPanoramaCallback(decryptor), which throws when the module has no
\* such export, so that no panorama is observed; nothing looks for
\* data-geojson.  decryptContent of www/decrypt.js loads the images at once
\* and creates no observer.
Registered(v, c) ==
    IF v = "index"
    THEN (c \cap {"img"})
         \cup (IF "getPanoramaCallback" \in PanoramaExports
               THEN c \cap {"panorama"} ELSE {})
    ELSE {}

RootDecrypted(c) ==
    /\ pc = "decrypting"
    /\ IF DecryptOk(variant, storedKey, response)
       THEN /\ ThenRoot(variant)
            /\ content' = c
            /\ observed' = Registered(variant, c)
       ELSE /\ CatchRoot(variant, "OperationError")
            /\ UNCHANGED <<content, observed>>
    /\ UNCHANGED <<variant, fragment, hash, path, storedDir, storedKey, captured,
                   response, requests, persistent>>

----------------------------------------------------------------------------
(* Lazy loading of images and panoramas (SpecMedia) *)

Images == 1..NImages
Panos == (NImages + 1)..(NImages + NPanos)
Elements == Images \cup Panos
\* Image locators are interchangeable, so they are numbered in the order
\* the images first use them.
Locators == 1..NImages
Declarations ==
    {d \in [Images -> Locators] :
        \A i \in Images : d[i] <= 1 + Cardinality({d[j] : j \in 1..(i - 1)})
                            /\ (i = 1 => d[i] = 1)}

\* The image loaders: "lazy" starts decryptImage without awaiting it,
\* "seq" awaits each decryptImage inside the callback's loop, "eager" is
\* decryptImages of www/decrypt.js, which decryptContent calls on every image
\* of the document and which uses no observer.
Loaders == {"lazy", "seq", "eager"}

\* The elements in Panos are panoramas (observed with the callback of
\* panorama.js) or maps (observed with the callback of map.js).
RichKinds == {"panorama", "map"}

\* data-panorama of a panorama element (data-geojson of a map element): one
\* locator each, apart from the image locators.
PanoLocator(p) == NImages + p

RECURSIVE EntriesOf(_, _)
\* The entries of one notification, in the order the targets were observed.
EntriesOf(S, vis) ==
    IF S = {} THEN <<>>
    ELSE LET i == CHOOSE x \in S : \A y \in S : x <= y
         IN  <<[target |-> i, isIntersecting |-> vis[i]]>>
                 \o EntriesOf(S \ {i}, vis)

\* if (entry.isIntersecting && 'src' in image.dataset)
ImagePending(e, m) == e.isIntersecting /\ m[e.target]

\* if (entry.isIntersecting && 'panorama' in entry.target.dataset)
PanoPending(e, m) == e.isIntersecting /\ m[e.target]

\* Indices of the entries of a batch that pass the callback's test.
Matching(entries, m) ==
    {k \in 1..Len(entries) : ImagePending(entries[k], m)}

Min(S) == CHOOSE x \in S : \A y \in S : x <= y

NewTask(id, kind, url, target, cont) ==
    [id |-> id, kind |-> kind, url |-> url, target |-> target, cont |-> cont,
     phase |-> "fetching", resp |-> "none"]

\* The requests one run of the lazy image callback issues: decryptImage for
\* every entry that is intersecting and still carries data-src.
LazyStarts(entries, m) ==
    LET ks == Matching(entries, m)
        rank(k) == Cardinality({j \in ks : j <= k})
    IN  {NewTask(nfetch + rank(k), "img", decl[entries[k].target],
                 entries[k].target, <<>>) : k \in ks}

\* The awaiting image callback runs up to its first await: the first entry
\* that passes the test starts a request, the rest of the batch waits.
SeqStarts(entries, m) ==
    LET ks == Matching(entries, m)
    IN  IF ks = {} THEN {}
        ELSE LET k == Min(ks)
             IN  {NewTask(nfetch + 1, "img", decl[entries[k].target],
                          entries[k].target,
                          SubSeq(entries, k + 1, Len(entries)))}

ImageStarts(entries, m) ==
    IF loader = "lazy" THEN LazyStarts(entries, m)
    ELSE IF loader = "seq" THEN SeqStarts(entries, m)
    ELSE {}

\* The loop of the eager decryptImages from the images in `rest` on, up to
\* its next await: an image that still has data-src loses it; it gets the
\* handle kept for its locator when there is one, otherwise its request is
\* issued and the loop waits for it.
RECURSIVE EagerRun(_, _, _, _)
EagerRun(rest, m, s, cache) ==
    IF rest = <<>> THEN [marker |-> m, src |-> s, started |-> {}]
    ELSE LET image == Head(rest)
         IN  IF ~m[image] THEN EagerRun(Tail(rest), m, s, cache)
             ELSE IF cache[decl[image]] # 0
             THEN EagerRun(Tail(rest), [m EXCEPT ![image] = FALSE],
                           [s EXCEPT ![image] = cache[decl[image]]], cache)
             ELSE [marker |-> [m EXCEPT ![image] = FALSE], src |-> s,
                   started |-> {NewTask(nfetch + 1, "img", decl[image], image,
                                        Tail(rest))}]

PanoStartsAll(entries, m) ==
    LET ks == {k \in 1..Len(entries) : PanoPending(entries[k], m)}
        rank(k) == Cardinality({j \in ks : j <= k})
    IN  {NewTask(nfetch + rank(k), IF rich = "map" THEN "map" ELSE "pano",
                 PanoLocator(entries[k].target), entries[k].target, <<>>) :
            k \in ks}

\* The panorama callback and the map callback: the first pending entry is
\* fetched (fetchObject, fetchText), and after it the loop is left (break).
PanoStarts(entries, m) ==
    LET ks == {k \in 1..Len(entries) : PanoPending(entries[k], m)}
    IN  IF ks = {} THEN {}
        ELSE LET k == Min(ks)
             IN  {NewTask(nfetch + 1, IF rich = "map" THEN "map" ELSE "pano",
                          PanoLocator(entries[k].target),
                          entries[k].target, <<>>)}

\* Bookkeeping of the requests in `started`.
Issue(started) ==
    /\ nfetch' = nfetch + Cardinality(started)
    /\ fetchedFor' = [e \in Elements |->
          fetchedFor[e] + Cardinality({t \in started : t.target = e})]
    /\ fetchedUrl' = [u \in DOMAIN fetchedUrl |->
          fetchedUrl[u] + Cardinality({t \in started : t.url = u})]

InitMedia ==
    /\ loader \in Loaders
    /\ rich \in RichKinds
    /\ decl \in Declarations
    /\ decrypted = [u \in Locators |-> 0]
    /\ marker = [i \in Images |-> TRUE]
    /\ src = [i \in Images |-> 0]
    /\ loading = [i \in Images |-> FALSE]
    /\ visible = [e \in Elements |-> FALSE]
    /\ pmarker = [p \in Panos |-> TRUE]
    /\ viewers = <<>>
    /\ tasks = {}
    /\ delivered = 0
    /\ nfetch = 0
    /\ fetchedFor = [e \in Elements |-> 0]
    /\ fetchedUrl = [u \in 1..(2 * NImages + NPanos) |-> 0]
    /\ triggered = [i \in Images |-> FALSE]
    /\ failed = {}
    /\ handles = <<>>
    /\ rejections = 0

\* decryptContent of www/decrypt.js calls decryptImages on the images of the
\* document it has just decrypted.
EagerLoad ==
    /\ loader = "eager"
    /\ nfetch = 0
    /\ \A i \in Images : marker[i]
    /\ LET run == EagerRun([k \in 1..NImages |-> k], marker, src, decrypted)
       IN  /\ marker' = run.marker
           /\ src' = run.src
           /\ tasks' = tasks \cup run.started
           /\ Issue(run.started)
    /\ UNCHANGED <<loader, rich, decl, decrypted, loading, visible, pmarker, viewers,
                   delivered, triggered, failed, handles, rejections>>

\* The image observer reports that the images in S changed visibility (the
\* eager loader has no observer: the images only move).
ImagesIntersect(S) ==
    /\ S # {}
    /\ delivered + Cardinality(S) <= MaxEntries
    /\ LET vis == [e \in Elements |-> IF e \in S THEN ~visible[e] ELSE visible[e]]
           entries == EntriesOf(S, vis)
           started == ImageStarts(entries, marker)
       IN  /\ visible' = vis
           /\ delivered' = delivered + Cardinality(S)
           /\ triggered' = [i \in Images |->
                 triggered[i] \/ (loader # "eager" /\ i \in S /\ vis[i] /\ marker[i])]
           /\ tasks' = tasks \cup started
           /\ Issue(started)
    /\ UNCHANGED <<loader, rich, decl, decrypted, marker, src, loading, pmarker, viewers,
                   failed, handles, rejections>>

\* The panorama observer reports that the panoramas in S changed visibility.
PanoramasIntersect(S) ==
    /\ S # {}
    /\ delivered + Cardinality(S) <= MaxEntries
    /\ LET vis == [e \in Elements |-> IF e \in S THEN ~visible[e] ELSE visible[e]]
           started == PanoStarts(EntriesOf(S, vis), pmarker)
       IN  /\ visible' = vis
           /\ delivered' = delivered + Cardinality(S)
           /\ tasks' = tasks \cup started
           /\ Issue(started)
    /\ UNCHANGED <<loader, rich, decl, decrypted, marker, src, loading, pmarker, viewers,
                   triggered, failed, handles, rejections>>

\* A task's promise rejects and nothing handles it: decryptImage chains
\* .then() without .catch(), and the async callbacks' promises are dropped
\* by the observer.  What the callback had left to do is abandoned.
Reject(t, r, error) ==
    /\ tasks' = tasks \ {t}
    /\ rejections' = rejections + 1
    /\ failed' = failed \cup {[url |-> t.url, error |-> error]}

\* const response = await fetch(url); const buffer = await response.arrayBuffer();
\* then decrypt(data): the status of the response is not looked at.
Respond(t, r) ==
    /\ t \in tasks
    /\ t.phase = "fetching"
    /\ IF r = "unreachable"
       THEN Reject(t, r, "TypeError")
       ELSE /\ tasks' = (tasks \ {t}) \cup
                  {[t EXCEPT !.phase = "decrypting", !.resp = r]}
            /\ UNCHANGED <<rejections, failed>>
    /\ UNCHANGED <<loader, rich, decl, decrypted, marker, src, loading, visible, pmarker,
                   viewers, delivered, nfetch, fetchedFor, fetchedUrl,
                   triggered, handles>>

\* crypto.subtle.decrypt under the page's key: the tag verifies only for the
\* published ciphertext.
decrypt(r) == r = "authentic"

fetchObjectEarly(r) == [ok |-> decrypt(r), created |-> TRUE]

\* fetchObject / toObjectURL: createObjectURL comes after the awaited decrypt,
\* which throws when the tag does not verify.
fetchObject(r) == [ok |-> decrypt(r), created |-> decrypt(r)]

\* fetchText: the decrypted bytes are decoded, no object URL is created.
fetchText(r) == [ok |-> decrypt(r), created |-> FALSE]

ImagesPending(url) == {i \in Images : marker[i]}

\* for (let image of document.querySelectorAll(`img[data-src="${url}"]`))
ImagesDeclaring(url) == {i \in Images : marker[i] /\ decl[i] = url}

\* Leaflet.map(element, ...) throws "Map container is already initialized."
\* for an element that holds a map; createMap then rejects, unhandled.
MapIn(target) == \E k \in 1..Len(viewers) : viewers[k].container = target

\* The awaited decrypt of task t settles.
Decrypted(t) ==
    /\ t \in tasks
    /\ t.phase = "decrypting"
    /\ LET res == IF t.kind = "map" THEN fetchText(t.resp)
                  ELSE fetchObject(t.resp)
           h == Len(handles) + 1
           targets == IF t.kind # "img" THEN {}
                      ELSE IF loader = "eager" THEN {t.target}
                      ELSE ImagesDeclaring(t.url)
           cache == IF t.kind = "img" /\ loader = "eager"
                    THEN [decrypted EXCEPT ![t.url] = h] ELSE decrypted
           run == IF loader = "eager"
                  THEN EagerRun(t.cont, marker,
                                [i \in Images |-> IF i \in targets THEN h ELSE src[i]],
                                cache)
                  ELSE [marker |-> [i \in Images |-> marker[i] /\ i \notin targets],
                        src |-> [i \in Images |-> IF i \in targets THEN h ELSE src[i]],
                        started |-> {}]
           started == IF res.ok /\ t.kind = "img"
                      THEN IF loader = "seq" THEN SeqStarts(t.cont, run.marker)
                           ELSE run.started
                      ELSE {}
       IN  /\ handles' =
                 IF res.created
                 THEN Append(handles,
                             [url |-> t.url, from |-> t.resp, owner |-> t.target,
                              installed |-> res.ok /\ (t.kind = "pano" \/ targets # {}),
                              revoked |-> FALSE])
                 ELSE handles
           /\ IF res.ok
              THEN /\ tasks' = (tasks \ {t}) \cup started
                   /\ IF t.kind = "map" /\ MapIn(t.target)
                      THEN /\ rejections' = rejections + 1
                           /\ failed' = failed \cup
                                 {[url |-> t.url, error |-> "Error"]}
                      ELSE UNCHANGED <<rejections, failed>>
                   /\ Issue(started)
                   /\ decrypted' = cache
                   /\ IF t.kind = "img"
                      THEN /\ marker' = run.marker
                           /\ src' = run.src
                           /\ loading' = [i \in Images |->
                                 loading[i] \/ i \in targets
                                     \/ run.src[i] # src[i]]
                           /\ UNCHANGED <<pmarker, viewers>>
                      \* createPanorama(target, blob), or createMap(target,
                      \* geojson, decryptor), which takes no blob and has
                      \* no ready event
                      ELSE /\ pmarker' = [pmarker EXCEPT ![t.target] = FALSE]
                           /\ viewers' = IF t.kind = "map" /\ MapIn(t.target)
                                         THEN viewers
                                         ELSE Append(viewers,
                                 [container |-> t.target,
                                  blob |-> IF t.kind = "map" THEN 0 ELSE h,
                                  ready |-> t.kind = "map",
                                  configured |-> 0,
                                  layer |-> IF t.kind = "map" THEN "deriving"
                                            ELSE "none"])
                           /\ UNCHANGED <<marker, src, loading>>
              ELSE /\ Reject(t, t.resp, "OperationError")
                   /\ UNCHANGED <<marker, src, loading, pmarker, viewers,
                                  nfetch, fetchedFor, fetchedUrl, decrypted>>
    /\ UNCHANGED <<loader, rich, decl, visible, delivered, triggered>>

\* Whether image i has the load listener that revokes: decryptImage adds it
\* to every image it updates; the eager decryptImages adds it only to the
\* image it fetches for, an image served from `decrypted` gets none.
Listens(i) == loader # "eager" \/ handles[src[i]].owner = i

\* The image has loaded its src: a 'load' event, and with it
\* image.addEventListener('load', (e) => URL.revokeObjectURL(e.target.src))
ImageLoad(i) ==
    /\ loading[i]
    /\ loading' = [loading EXCEPT ![i] = FALSE]
    /\ handles' = IF Listens(i) THEN [handles EXCEPT ![src[i]].revoked = TRUE]
                  ELSE handles
    /\ UNCHANGED <<loader, rich, decl, decrypted, marker, src, visible, pmarker, viewers,
                   tasks, delivered, nfetch, fetchedFor, fetchedUrl,
                   triggered, failed, rejections>>

\* The panorama callback that the awaiting image loader is used with
\* (window.panoramaObserver) keeps its viewer in `var viewer` of the module;
\* createPanorama of the observer-based loader has `let viewer` of its own.
SharedViewer == loader = "seq"

\* The viewer that `viewer` names when the ready handler of viewer k runs:
\* the module's variable holds the viewer that was constructed last.
readyViewer(k, created) == IF SharedViewer THEN Len(created) ELSE k

\* viewer.addEventListener('ready', () => { URL.revokeObjectURL(url); ... }),
\* viewer.on('ready', function() { URL.revokeObjectURL(blob);
\*     viewer.getPlugin(...); fillView(viewer); })
ViewerReady(k) ==
    /\ k \in 1..Len(viewers)
    /\ ~viewers[k].ready
    /\ viewers' = [viewers EXCEPT ![k].ready = TRUE,
                                  ![readyViewer(k, viewers)].configured = k]
    /\ handles' = [handles EXCEPT ![viewers[k].blob].revoked = TRUE]
    /\ UNCHANGED <<loader, rich, decl, decrypted, marker, src, loading, visible, pmarker,
                   tasks, delivered, nfetch, fetchedFor, fetchedUrl,
                   triggered, failed, rejections>>

\* new Decryptor(base64key): the object has one property, key, the imported
\* AES-GCM key, which may be used to decrypt and cannot be exported.
Decryptor(base64key) ==
    [key |-> [algorithm |-> "AES-GCM", usages |-> {"decrypt"},
              raw |-> atob(KeyString(base64key)).bytes]]

\* Stand-in for HKDF-SHA-256 followed by the import as an HMAC key: one of
\* the layer's keys, depending on the key material, the salt and the info.
hkdf(raw, salt, info) == 1 + ((Len(raw) + 3 * Len(salt) + 5 * Len(info)) % 2)

\* crypto.subtle.deriveKey({name: "HKDF", salt, info}, baseKey, ...): the
\* base key has to be a key imported for HKDF with the usage deriveKey.
deriveKey(salt, info, baseKey) ==
    IF baseKey.algorithm # "HKDF" \/ "deriveKey" \notin baseKey.usages
    THEN [ok |-> FALSE, error |-> "InvalidAccessError", key |-> 0]
    ELSE [ok |-> TRUE, error |-> "none", key |-> hkdf(baseKey.raw, salt, info)]

\* cryptoTileLayer(options): options.key is derived from
\* options.decryptor.base with an empty salt and the info "names"; a base
\* that is undefined is no CryptoKey, and the call throws a TypeError.
cryptoTileLayer(decryptor) ==
    IF "base" \notin DOMAIN decryptor
    THEN [ok |-> FALSE, error |-> "TypeError", key |-> 0]
    ELSE deriveKey(<<>>, <<"n", "a", "m", "e", "s">>, decryptor.base)

\* createMap resumes after `await cryptoTileLayer(...)`: the layer is added
\* to the map, or createMap rejects, and nothing handles the rejection
\* (the callback calls createMap without awaiting it).
LayerDerived(k, index) ==
    /\ k \in 1..Len(viewers)
    /\ viewers[k].layer = "deriving"
    /\ LET made == cryptoTileLayer(Decryptor(storedKey))
       IN  IF made.ok
           THEN /\ viewers' = [viewers EXCEPT ![k].layer = "added"]
                /\ layerKey' = made.key
                /\ tileIndex' = index
                /\ UNCHANGED <<rejections, failed>>
           ELSE /\ viewers' = [viewers EXCEPT ![k].layer = "failed"]
                /\ rejections' = rejections + 1
                /\ failed' = failed \cup
                      {[url |-> PanoLocator(viewers[k].container),
                        error |-> made.error]}
                /\ UNCHANGED <<layerKey, tileIndex>>
    /\ UNCHANGED <<loader, rich, decl, decrypted, marker, src, loading, visible,
                   pmarker, tasks, delivered, nfetch, fetchedFor, fetchedUrl,
                   triggered, handles, tiles>>

----------------------------------------------------------------------------
(* The tile layer of a map (SpecTiles) *)

\* zoomSnap 5 between minZoom 5 and maxZoom 14: the zooms the map can take.
Zooms == {5, 10}

TileCoords == [z : Zooms, x : 0..MaxCoord, y : {TileRow}]

Digits == <<"0", "1", "2", "3", "4", "5", "6", "7", "8", "9">>

\* The decimal digits of a natural number, as a template literal writes it.
RECURSIVE Dec(_)
Dec(n) ==
    IF n < 10 THEN <<Digits[n + 1]>>
    ELSE Dec(n \div 10) \o <<Digits[(n % 10) + 1]>>

\* `${this._getZoomForUrl()}_${coords.x}_${coords.y}`
PointString(c) == Dec(c.z) \o <<"_">> \o Dec(c.x) \o <<"_">> \o Dec(c.y)

\* c.charCodeAt(0) of the characters a point string is made of.
CharCode(c) ==
    IF c = "_" THEN 95 ELSE 47 + (CHOOSE i \in 1..10 : Digits[i] = c)

\* The tile indexes a post is published with: the tiles of the lowest zoom,
\* the tiles of the first column, every tile, none.
TileIndexes ==
    {{PointString(c) : c \in {d \in TileCoords : d.z = 5}},
     {PointString(c) : c \in {d \in TileCoords : d.x = 0 /\ d.z = 10}},
     {PointString(c) : c \in TileCoords},
     {}}

\* The keys cryptoTileLayer can have derived for the layer.
DerivedKeys == {1, 2}

\* Stand-in for crypto.subtle.sign("HMAC", key, bytes): MacBytes bytes that
\* depend on the key and on every character of the message.
RECURSIVE Weighted(_, _, _)
Weighted(msg, j, i) ==
    IF j > Len(msg) THEN 0
    ELSE CharCode(msg[j]) * (j + i) + Weighted(msg, j + 1, i)

sign(key, msg) ==
    [i \in 1..MacBytes |-> (key * 131 + i * 29 + Weighted(msg, 1, i)) % 256]

Upper32 == <<"A", "B", "C", "D", "E", "F", "G", "H", "I", "J", "K", "L", "M",
             "N", "O", "P", "Q", "R", "S", "T", "U", "V", "W", "X", "Y", "Z",
             "2", "3", "4", "5", "6", "7">>

Lower32 == <<"a", "b", "c", "d", "e", "f", "g", "h", "i", "j", "k", "l", "m",
             "n", "o", "p", "q", "r", "s", "t", "u", "v", "w", "x", "y", "z",
             "2", "3", "4", "5", "6", "7">>

RECURSIVE Pow2(_)
Pow2(n) == IF n = 0 THEN 1 ELSE 2 * Pow2(n - 1)

\* Bit k (from 1, most significant first) of a byte sequence, 0 past its end.
Bit(bytes, k) ==
    IF k > 8 * Len(bytes) THEN 0
    ELSE (bytes[((k - 1) \div 8) + 1] \div Pow2(7 - ((k - 1) % 8))) % 2

\* base32Encode(bytes, "RFC4648", {padding}): every 5 bits give a character
\* of the alphabet, the last group is filled with zero bits, and with
\* padding the output is filled with '=' to a multiple of 8 characters.
base32Encode(bytes, padding) ==
    LET n == (8 * Len(bytes) + 4) \div 5
        group(j) == 16 * Bit(bytes, 5 * j - 4) + 8 * Bit(bytes, 5 * j - 3)
                      + 4 * Bit(bytes, 5 * j - 2) + 2 * Bit(bytes, 5 * j - 1)
                      + Bit(bytes, 5 * j)
        text == [j \in 1..n |-> Upper32[group(j) + 1]]
    IN  IF padding THEN text \o Rep("=", (8 - (n % 8)) % 8) ELSE text

\* String.prototype.toLowerCase on the characters of the alphabet.
toLowerCase(s) ==
    [i \in 1..Len(s) |->
        IF \E k \in 1..32 : Upper32[k] = s[i]
        THEN Lower32[CHOOSE k \in 1..32 : Upper32[k] = s[i]]
        ELSE s[i]]

tileNamePadded(hmac) == base32Encode(hmac, TRUE)

\* const tileName = base32Encode(hmac, "RFC4648", {padding: false});
tileName(hmac) == base32Encode(hmac, FALSE)

\* `tiles/${tileName.toLowerCase()}`
TileLocator(key, point) ==
    <<"tiles/">> \o toLowerCase(tileName(sign(key, point)))

includesAny(list, point) == TRUE

\* this.options.tiles.includes(point)
includes(list, point) == point \in list

\* Object URLs and the values a src can have.
NoUrl == <<>>
Undefined == <<"undefined">>
BlobUrl(k) == <<"blob", k>>

\* URL.revokeObjectURL(url): the handle with that URL, if there is one.
Revoke(ts, url) ==
    [j \in 1..Len(ts) |->
        IF ts[j].src = url /\ url # NoUrl
        THEN [ts[j] EXCEPT !.revoked = TRUE] ELSE ts[j]]

\* The event the layer fires when a tile is ready: fire('tileload',
\* {tile: <the img element>, coords: coords}); a listener is called with this
\* one object.
TileLoadEvent(k) == [type |-> "tileload", tile |-> k, coords |-> tiles[k].coords]

\* element.src for the object the listener names `element`.
Prop(object, name) ==
    IF name \in DOMAIN object THEN object[name] ELSE Undefined

\* this.on('tileload', function(element, point) {
\*     URL.revokeObjectURL(element.src); });
OnTileLoad(ts, event) == Revoke(ts, Prop(event, "src"))

\* The layer is asked for the tile at coords c.  The base class makes the
\* img with src = getTileUrl(coords), the (empty) errorTileUrl; the async
\* part starts only for a point of the index.
createTile(c) ==
    /\ Len(tiles) < MaxTiles
    /\ LET point == PointString(c)
       IN  tiles' = Append(tiles,
              [coords |-> c, point |-> point,
               phase |-> IF includes(tileIndex, point) THEN "signing" ELSE "plain",
               signed |-> FALSE, requested |-> FALSE, locator |-> <<>>,
               resp |-> "none", src |-> NoUrl, revoked |-> FALSE])
    /\ UNCHANGED <<layerKey, tileIndex>>

\* The awaited crypto.subtle.sign settles: the name is encoded and
\* decryptor.fetchObject issues the request.
TileSigned(k) ==
    /\ tiles[k].phase = "signing"
    /\ tiles' = [tiles EXCEPT ![k].phase = "fetching",
                              ![k].signed = TRUE,
                              ![k].requested = TRUE,
                              ![k].locator = TileLocator(layerKey, tiles[k].point)]
    /\ UNCHANGED <<layerKey, tileIndex>>

\* The request settles; a rejected fetch is caught: done(error, tile).
TileRespond(k, r) ==
    /\ tiles[k].phase = "fetching"
    /\ tiles' = IF r = "unreachable"
                THEN [tiles EXCEPT ![k].phase = "error", ![k].resp = r]
                ELSE [tiles EXCEPT ![k].phase = "decrypting", ![k].resp = r]
    /\ UNCHANGED <<layerKey, tileIndex>>

\* The awaited decrypt settles: tile.src = url; done(null, tile), upon which
\* the layer fires 'tileload'; a failed decrypt is caught: done(error, tile).
TileDecrypted(k) ==
    /\ tiles[k].phase = "decrypting"
    /\ IF fetchObject(tiles[k].resp).ok
       THEN LET installed == [tiles EXCEPT ![k].src = BlobUrl(k),
                                           ![k].phase = "loaded"]
            IN  tiles' = OnTileLoad(installed, TileLoadEvent(k))
       ELSE tiles' = [tiles EXCEPT ![k].phase = "error"]
    /\ UNCHANGED <<layerKey, tileIndex>>

\* The img has loaded its src: the base class's load listener calls done
\* again, and the layer fires 'tileload' again.
TileImageLoad(k) ==
    /\ tiles[k].phase = "loaded"
    /\ tiles' = OnTileLoad([tiles EXCEPT ![k].phase = "shown"], TileLoadEvent(k))
    /\ UNCHANGED <<layerKey, tileIndex>>

\* No layer yet.
TilesIdle ==
    /\ layerKey = 0
    /\ tileIndex = {}
    /\ tiles = <<>>

----------------------------------------------------------------------------
(* AES-GCM decryption of one input (SpecCodec) *)

NonceBytes == 12

\* Keys, as what distinguishes one imported key from another.
CodecKeys == {1, 2}

Nonces == {[i \in 1..NonceBytes |-> 0], [i \in 1..NonceBytes |-> 17 * i]}

RECURSIVE BytesUpTo(_)
BytesUpTo(n) ==
    IF n = 0 THEN {<<>>}
    ELSE BytesUpTo(n - 1)
           \cup {p \o <<b>> : p \in {q \in BytesUpTo(n - 1) : Len(q) = n - 1},
                              b \in {0, 255}}

Plaintexts == BytesUpTo(MaxPlain)

RECURSIVE Sum(_, _)
\* Sum of s[j] * (2j + 1) over the bytes of s from index j on.
Sum(s, j) == IF j > Len(s) THEN 0 ELSE s[j] * (2 * j + 1) + Sum(s, j + 1)

\* Stand-ins for the two halves of AES-GCM: a key stream that depends on the
\* key, the nonce and the position, and a tag that depends on the key, the
\* nonce and every bit of the ciphertext.
KeyStream(key, nonce, i) == (key * 37 + Sum(nonce, 1) + 11 * i) % 256

Tag(key, nonce, c) ==
    [i \in 1..TagBytes |->
        (key * 131 + 29 * i + Sum(nonce, 1) + Sum(c, 1) + 2 * i * Len(c)) % 256]

\* What the encryptor publishes for (key, nonce, plain), after the nonce:
\* ciphertext, then tag.
Enc(key, nonce, plain) ==
    LET c == [i \in 1..Len(plain) |->
                 (plain[i] + KeyStream(key, nonce, i)) % 256]
    IN  c \o Tag(key, nonce, c)

NoOutput == [called |-> FALSE, ok |-> FALSE, plain |-> <<>>]

\* crypto.subtle.decrypt({name: 'AES-GCM', iv}, key, bytes): OperationError
\* when the bytes are shorter than a tag or the tag does not verify.
subtleDecrypt(key, iv, bytes) ==
    IF Len(bytes) < TagBytes THEN [called |-> TRUE, ok |-> FALSE, plain |-> <<>>]
    ELSE LET c == SubSeq(bytes, 1, Len(bytes) - TagBytes)
             t == SubSeq(bytes, Len(bytes) - TagBytes + 1, Len(bytes))
         IN  IF t # Tag(key, iv, c)
             THEN [called |-> TRUE, ok |-> FALSE, plain |-> <<>>]
             ELSE [called |-> TRUE, ok |-> TRUE,
                   plain |-> [i \in 1..Len(c) |->
                       (c[i] + 256 - KeyStream(key, iv, i)) % 256]]

\* data.subarray(begin, end) / data.subarray(begin): clamped to the array.
subarray(data, begin, end) ==
    SubSeq(data, begin + 1, IF end < Len(data) THEN end ELSE Len(data))

decryptWholeInput(key, data) ==
    subtleDecrypt(key, subarray(data, 0, NonceBytes), data)

\* decrypt(data): iv = data.subarray(0, 12), ciphertext = data.subarray(12)
decryptData(key, data) ==
    subtleDecrypt(key, subarray(data, 0, NonceBytes),
                  subarray(data, NonceBytes, Len(data)))

\* One bit of a byte flipped.
Flip(v, b) == IF (v \div Pow2(b)) % 2 = 1 THEN v - Pow2(b) ELSE v + Pow2(b)

\* The inputs decrypt is called with: the published bytes under the key they
\* were sealed with ("none"), with one bit of the ciphertext or tag flipped
\* ("bit"), under another key ("key"), or cut to fewer than 12 bytes ("short").
InitCodec ==
    /\ \E k \in CodecKeys, n \in Nonces, p \in Plaintexts :
         LET published == n \o Enc(k, n, p)
         IN  \/ /\ sealed = [key |-> k, nonce |-> n, plain |-> p, change |-> "none"]
                /\ input = [key |-> k, data |-> published]
             \/ \E at \in (NonceBytes + 1)..Len(published), b \in 0..7 :
                   /\ sealed = [key |-> k, nonce |-> n, plain |-> p, change |-> "bit"]
                   /\ input = [key |-> k,
                               data |-> [published EXCEPT ![at] = Flip(@, b)]]
             \/ \E other \in CodecKeys \ {k} :
                   /\ sealed = [key |-> k, nonce |-> n, plain |-> p, change |-> "key"]
                   /\ input = [key |-> other, data |-> published]
             \/ \E len \in 0..(NonceBytes - 1) :
                   /\ sealed = [key |-> k, nonce |-> n, plain |-> p, change |-> "short"]
                   /\ input = [key |-> k, data |-> SubSeq(published, 1, len)]
    /\ output = NoOutput

\* Decryptor.decrypt(data) / decrypt(base64key, data)
Decrypt ==
    /\ ~output.called
    /\ output' = decryptData(input.key, input.data)
    /\ UNCHANGED <<sealed, input>>

\* No call of decrypt is followed.
CodecIdle ==
    /\ sealed = "none"
    /\ input = "none"
    /\ output = NoOutput

----------------------------------------------------------------------------
(* Specifications *)

\* The page whose media SpecMedia loads: its root document is shown.
PageShown ==
    /\ variant = IF loader = "lazy" THEN "index" ELSE "load"
    /\ fragment = <<>>
    /\ hash = <<>>
    /\ path = <<"/", "a", "/">>
    /\ storedDir = IF variant = "load" THEN <<"a">> ELSE NoDir
    /\ storedKey = PublisherKey(variant)
    /\ captured = FALSE
    /\ pc = "shown"
    /\ body = 1
    /\ unlocked = (loader = "lazy")
    /\ console = <<>>
    /\ response = "authentic"
    \* the media specifications model the observers' callbacks: both
    \* observers are taken to exist
    /\ content = {"img", rich}
    /\ observed = IF loader = "eager" THEN {} ELSE content
    /\ requests = {ContentUrl}
    /\ persistent = {}

\* No media while SpecPage loads pages.
MediaIdle ==
    /\ InitMedia
    /\ loader = "lazy"
    /\ rich = "panorama"
    /\ decl = [i \in Images |-> 1]

NextPage ==
    \/ /\ pc = "idle"
       /\ \E p \in Paths, f \in Fragments : Navigate(p, f) /\ UNCHANGED notPage
    \/ CaptureKey /\ UNCHANGED notPage
    \/ DOMContentLoaded /\ UNCHANGED notPage
    \/ \E r \in Responses : RootRespond(r) /\ UNCHANGED notPage
    \/ \E c \in SUBSET MediaKinds : RootDecrypted(c) /\ UNCHANGED notPage
    \/ Leave /\ UNCHANGED notPage

InitPageSpec == InitPage /\ MediaIdle /\ TilesIdle /\ CodecIdle

SpecPage == InitPageSpec /\ [][NextPage]_vars

NextImages ==
    \/ EagerLoad /\ UNCHANGED notMedia
    \/ \E S \in SUBSET Images : ImagesIntersect(S) /\ UNCHANGED notMedia
    \/ \E t \in tasks, r \in Responses : Respond(t, r) /\ UNCHANGED notMedia
    \/ \E t \in tasks : Decrypted(t) /\ UNCHANGED notMedia
    \/ \E i \in Images : ImageLoad(i) /\ UNCHANGED notMedia

InitImages ==
    InitMedia /\ rich = "panorama" /\ PageShown /\ TilesIdle /\ CodecIdle

SpecImages == InitImages /\ [][NextImages]_vars

NextPanos ==
    \/ \E S \in SUBSET Panos : PanoramasIntersect(S) /\ UNCHANGED notMedia
    \/ \E t \in tasks, r \in Responses : Respond(t, r) /\ UNCHANGED notMedia
    \/ \E t \in tasks : Decrypted(t) /\ UNCHANGED notMedia
    \/ \E k \in 1..Len(viewers) : ViewerReady(k) /\ UNCHANGED notMedia
    \/ \E k \in 1..Len(viewers), index \in TileIndexes :
          LayerDerived(k, index) /\ UNCHANGED <<pageVars, codecVars>>

InitPanos ==
    InitMedia /\ decl = [i \in Images |-> 1] /\ PageShown /\ TilesIdle /\ CodecIdle

SpecPanos == InitPanos /\ [][NextPanos]_vars

\* What the page does by itself once a callback has started a task: the
\* network answers, the awaited promises settle, the viewers become ready.
\* The observer's notifications depend on the reader's scrolling and are not
\* required to happen.
PanosProgress ==
    \/ \E t \in tasks, r \in Responses : Respond(t, r) /\ UNCHANGED notMedia
    \/ \E t \in tasks : Decrypted(t) /\ UNCHANGED notMedia
    \/ \E k \in 1..Len(viewers) : ViewerReady(k) /\ UNCHANGED notMedia
    \/ \E k \in 1..Len(viewers), index \in TileIndexes :
          LayerDerived(k, index) /\ UNCHANGED <<pageVars, codecVars>>

SpecPanosLive == InitPanos /\ [][NextPanos]_vars /\ WF_vars(PanosProgress)

\* The map of the first rich element has been created (its index was fetched
\* and decrypted, its marker removed) and cryptoTileLayer has made the layer.
MapCreated ==
    /\ loader = "lazy"
    /\ rich = "map"
    /\ decl = [i \in Images |-> 1]
    /\ decrypted = [u \in Locators |-> 0]
    /\ marker = [i \in Images |-> TRUE]
    /\ src = [i \in Images |-> 0]
    /\ loading = [i \in Images |-> FALSE]
    /\ visible = [e \in Elements |-> e = Min(Panos)]
    /\ pmarker = [p \in Panos |-> p # Min(Panos)]
    /\ viewers = <<[container |-> Min(Panos), blob |-> 0, ready |-> TRUE,
                     configured |-> 0, layer |-> "added"]>>
    /\ tasks = {}
    /\ delivered = 1
    /\ nfetch = 1
    /\ fetchedFor = [e \in Elements |-> IF e = Min(Panos) THEN 1 ELSE 0]
    /\ fetchedUrl = [u \in 1..(2 * NImages + NPanos) |->
                        IF u = PanoLocator(Min(Panos)) THEN 1 ELSE 0]
    /\ triggered = [i \in Images |-> FALSE]
    /\ failed = {}
    /\ handles = <<>>
    /\ rejections = 0

NextTiles ==
    \/ \E c \in TileCoords : createTile(c) /\ UNCHANGED notTiles
    \/ \E k \in 1..Len(tiles) : TileSigned(k) /\ UNCHANGED notTiles
    \/ \E k \in 1..Len(tiles), r \in Responses :
          TileRespond(k, r) /\ UNCHANGED notTiles
    \/ \E k \in 1..Len(tiles) : TileDecrypted(k) /\ UNCHANGED notTiles
    \/ \E k \in 1..Len(tiles) : TileImageLoad(k) /\ UNCHANGED notTiles

InitTiles ==
    /\ MapCreated
    /\ PageShown
    /\ layerKey \in DerivedKeys
    /\ tileIndex \in TileIndexes
    /\ tiles = <<>>
    /\ CodecIdle

SpecTiles == InitTiles /\ [][NextTiles]_vars

NextCodec == Decrypt /\ UNCHANGED notCodec

InitCodecSpec == MediaIdle /\ PageShown /\ TilesIdle /\ InitCodec

SpecCodec == InitCodecSpec /\ [][NextCodec]_vars

----------------------------------------------------------------------------
(* Properties *)

\* Tasks in flight that fetch locator u, and images a suspended callback
\* still has in the rest of its batch.
InFlight(u) == \E t \in tasks : t.url = u
Queued(i) ==
    \E t \in tasks : \E k \in 1..Len(t.cont) :
        t.cont[k].target = i /\ t.cont[k].isIntersecting
HasFailed(u) == \E f \in failed : f.url = u
Quiet ==
    /\ tasks = {}
    /\ \A i \in Images : ~loading[i]
    /\ \A k \in 1..Len(viewers) : viewers[k].ready

\* C1: no image ever has more than one request issued on its behalf, however
\* often the visibility callback reports it.
C1_AtMostOneFetchPerImage == \A i \in Images : fetchedFor[i] <= 1

\* C2: as long as nothing fails, at most one request is issued per locator,
\* and once nothing is in flight for a requested locator every image that
\* declares it has a source installed.
C2_OneFetchPerLocator ==
    failed = {} =>
        \A u \in Locators :
            /\ fetchedUrl[u] <= 1
            /\ (fetchedUrl[u] > 0 /\ ~InFlight(u)) =>
                   \A i \in Images : decl[i] = u => src[i] # 0

\* C3: once a request for a locator has failed, no step issues another
\* request for that locator.
C3_FailedIsTerminal ==
    [][\A u \in DOMAIN fetchedUrl :
          HasFailed(u) => fetchedUrl'[u] = fetchedUrl[u]]_vars

\* C4: when no task is in flight and every sink has signalled that it
\* finished loading, every handle that was created has been installed on a
\* sink and has been revoked.
C4_NoHandleLeftWhenQuiet ==
    Quiet => \A h \in 1..Len(handles) :
                 handles[h].installed /\ handles[h].revoked

\* C5: an image that a callback saw intersecting and pending is never left
\* pending with nothing under way for it unless its own locator failed: the
\* failure of another image of its batch does not drop it.
C5_SiblingsStillLoaded ==
    \A i \in Images :
        (triggered[i] /\ marker[i]) =>
            InFlight(decl[i]) \/ Queued(i) \/ HasFailed(decl[i])

\* C6: when the root document could not be loaded the page stays locked and
\* silent: nothing appended, no 'unlocked' class, nothing on the console.
C6_RootFailureSilent ==
    pc = "locked" => body = 0 /\ ~unlocked /\ console = <<>>

\* C7: a response with a non-success status is never handed to decrypt.
C7_StatusNeverDecrypted ==
    \A t \in tasks : t.phase = "decrypting" => t.resp # "status"

\* C8: no rejection of a media task escapes the loader.
C8_NoRejectionEscapes == rejections = 0

\* C9: a handle exists only for a decrypt that succeeded: every handle comes
\* from the published ciphertext, and the handles are exactly as many as the
\* tasks that settled without rejecting.
C9_HandleOnlyAfterDecrypt ==
    /\ \A h \in 1..Len(handles) : handles[h].from = "authentic"
    /\ Len(handles) = nfetch - Cardinality(tasks) - rejections

\* A network failure and a decryption failure have both happened and no
\* handle exists.
C9_FailuresSettled ==
    /\ \E f \in failed : f.error = "TypeError"
    /\ \E f \in failed : f.error = "OperationError"
    /\ handles = <<>>

\* Base64 as the claims speak of it: characters of the alphabet followed by
\* at most two '=' that fill the last group of four; padding is optional.
DataLen(s) == Cardinality({i \in 1..Len(s) : s[i] # "="})
WellFormed(s, alphabet) ==
    LET n == DataLen(s)
        p == Len(s) - n
    IN  /\ \A i \in 1..n : s[i] \in alphabet
        /\ p <= 2
        /\ (p > 0 => Len(s) % 4 = 0)
        /\ n % 4 # 1
DecodedBytes(s) == (3 * DataLen(s)) \div 4
Accepts(s, alphabet, lengths) ==
    s # <<>> /\ WellFormed(s, alphabet) /\ DecodedBytes(s) \in lengths

\* C10 as stated: the capture step stores the fragment exactly when it is
\* base64 for 16 bytes or for 32 bytes.
C10_SixteenOrThirtyTwo ==
    pc = "loaded" =>
        /\ captured <=> Accepts(fragment, Alphabet, {16, 32})
        /\ captured => storedKey = fragment

\* C10 amended: the capture step stores the fragment exactly when it is
\* base64 for the one key length of its deployment: 32 bytes in index.js,
\* where '-' and '_' may stand for '+' and '/', 16 bytes in load.js.
C10_DeploymentKeyLength ==
    pc = "loaded" =>
        /\ captured <=>
              IF variant = "index"
              THEN Accepts(fragment, Alphabet \cup {"-", "_"}, {32})
              ELSE Accepts(fragment, Alphabet, {16})
        /\ captured => storedKey = fragment

\* Both deployments have captured a key: the padded 16-byte key in load.js,
\* or a 32-byte key written with a URL-safe character in index.js.
C10_KeyCaptured ==
    /\ pc = "loaded"
    /\ captured
    /\ storedKey = fragment
    /\ \/ variant = "load" /\ Len(fragment) = 24
       \/ variant = "index" /\ \E i \in 1..Len(fragment) : fragment[i] = "_"

----------------------------------------------------------------------------
(* Key capture as a step of the page's script *)

\* The step of the script in which the capture did not store a key.
CaptureFailed == pc = "script" /\ pc' = "loaded" /\ ~captured'

CaptureSucceeded == pc = "script" /\ pc' = "loaded" /\ captured'

C12_CaptureStoresStripsIdempotent ==
    [][CaptureSucceeded =>
          /\ storedKey' = hash
          /\ hash' = <<>>
          /\ path' = path
          /\ LET again == capture(variant, path', hash', storedKey')
             IN  /\ again.key = storedKey'
                 /\ again.hash = hash'
                 /\ again.path = path'
          /\ variant = "load" => storedDir' = getLastPathComponent(path')]_vars

\* A page opened with a valid key in its fragment, after the capture step.
C12_KeyStoredAndStripped ==
    /\ pc = "loaded"
    /\ captured
    /\ fragment # <<>>
    /\ storedKey = fragment
    /\ hash = <<>>

----------------------------------------------------------------------------
(* Registration of the decrypted document's media *)

\* C13 as stated: once the root document is shown, every kind of pending
\* element it carries (image, panorama, map) is registered with an observer.
C13_MarkedElementsObserved ==
    pc = "shown" => content \subseteq observed

----------------------------------------------------------------------------
(* Fetches and the viewport *)

\* The locator element e declares.
LocatorOf(e) == IF e \in Images THEN decl[e] ELSE PanoLocator(e)

\* C14 as stated: a request for a locator is issued only when a callback has
\* seen an element declaring it intersecting and pending, and never while
\* every element declaring it is outside the viewport.
C14_FetchOnlyWhenVisible ==
    [][\A u \in DOMAIN fetchedUrl :
          fetchedUrl'[u] > fetchedUrl[u] =>
              \E e \in Elements :
                  /\ LocatorOf(e) = u
                  /\ visible'[e]
                  /\ e \in Images => triggered'[e]]_vars

----------------------------------------------------------------------------
(* One sink for each run of the panorama callback and of the map callback *)

\* The elements whose visibility the step reports, and those of them that
\* pass the callback's test.
Batch == {e \in Panos : visible'[e] # visible[e]}

PendingInBatch == {e \in Batch : visible'[e] /\ pmarker[e]}

\* C15: a run of the panorama (map) callback issues at most one request, for
\* the first entry that is intersecting and pending, and touches no marker;
\* when the request has been decrypted, one viewer (map) is created, the
\* marker of that element alone is removed, and no other request follows.
C15_OneSinkPerInvocation ==
    [][/\ Batch # {} =>
           /\ pmarker' = pmarker
           /\ viewers' = viewers
           /\ IF PendingInBatch = {} THEN tasks' = tasks
              ELSE \E t \in tasks' \ tasks :
                      /\ tasks' = tasks \cup {t}
                      /\ t.target = Min(PendingInBatch)
       /\ Len(viewers') # Len(viewers) =>
           /\ Len(viewers') = Len(viewers) + 1
           /\ nfetch' = nfetch
           /\ pmarker' = [pmarker EXCEPT
                             ![viewers'[Len(viewers')].container] = FALSE]]_vars

\* One notification reported two pending maps as intersecting: one request
\* was issued and both still carry their marker.
C15_TwoPendingOneStarted ==
    /\ rich = "map"
    /\ delivered = 2
    /\ nfetch = 1
    /\ Cardinality({e \in Panos : visible[e] /\ pmarker[e]}) = 2

----------------------------------------------------------------------------
(* Map tiles *)

\* C16: a MAC is computed, a locator derived and a request issued only for
\* tiles whose point string is in the tile index; a tile of any other
\* coordinate stays as the base class made it.
C16_OnlyDeclaredTilesFetched ==
    \A k \in 1..Len(tiles) :
        tiles[k].point \notin tileIndex =>
            /\ ~tiles[k].signed
            /\ ~tiles[k].requested
            /\ tiles[k].locator = <<>>
            /\ tiles[k].phase = "plain"

\* The layer was asked for a tile outside the index and for one inside it,
\* and has requested the latter.
C16_UndeclaredTileLeftAlone ==
    \E j, k \in 1..Len(tiles) :
        /\ tiles[j].point \notin tileIndex
        /\ tiles[k].point \in tileIndex
        /\ tiles[k].requested

\* Base32 by arithmetic: the digest as one number, shifted left to a multiple
\* of 5 bits, written in base 32 with the lower-case alphabet.
RECURSIVE AsNumber(_)
AsNumber(bytes) ==
    IF bytes = <<>> THEN 0
    ELSE 256 * AsNumber(SubSeq(bytes, 1, Len(bytes) - 1)) + bytes[Len(bytes)]

RECURSIVE Pow32(_)
Pow32(n) == IF n = 0 THEN 1 ELSE 32 * Pow32(n - 1)

LowerBase32(bytes) ==
    LET fill == (5 - ((8 * Len(bytes)) % 5)) % 5
        value == AsNumber(bytes) * Pow2(fill)
        n == (8 * Len(bytes) + fill) \div 5
    IN  [j \in 1..n |-> Lower32[((value \div Pow32(n - j)) % 32) + 1]]

\* C17: the locator requested for a tile is "tiles/" followed by the
\* lower-case, unpadded base32 of HMAC(derivedKey, "zoom_x_y"), and two
\* requests for the same coordinates use the same locator.
C17_LocatorIsKeyedName ==
    /\ \A k \in 1..Len(tiles) :
          tiles[k].requested =>
              tiles[k].locator =
                  <<"tiles/">> \o LowerBase32(sign(layerKey, PointString(tiles[k].coords)))
    /\ \A j, k \in 1..Len(tiles) :
          tiles[j].requested /\ tiles[k].requested
                  /\ tiles[j].coords = tiles[k].coords
              => tiles[j].locator = tiles[k].locator

\* The same tile has been requested twice.
C17_SameTileRequestedTwice ==
    \E j, k \in 1..Len(tiles) :
        /\ j < k
        /\ tiles[j].coords = tiles[k].coords
        /\ tiles[j].requested
        /\ tiles[k].requested

\* C20 as stated: once 'tileload' has been fired for a tile, the object URL
\* installed as its src has been revoked.
C20_TileHandleRevokedOnLoad ==
    \A k \in 1..Len(tiles) :
        tiles[k].phase \in {"loaded", "shown"} => tiles[k].revoked

----------------------------------------------------------------------------
(* The framing of decrypt *)

\* C18: decrypt takes the first 12 bytes as the nonce and the rest as
\* ciphertext and tag: the published bytes under their key give back the
\* plaintext; with one bit of ciphertext or tag flipped, under another key,
\* or cut to fewer than 12 bytes, decrypt fails and gives no plaintext.
C18_RoundTripAndRejection ==
    output.called =>
        IF sealed.change = "none"
        THEN output.ok /\ output.plain = sealed.plain
        ELSE ~output.ok /\ output.plain = <<>>

\* A published input with a plaintext that is not empty has been decrypted.
C18_PublishedInputDecrypted ==
    /\ output.called
    /\ sealed.change = "none"
    /\ sealed.plain # <<>>
    /\ output.ok

----------------------------------------------------------------------------
(* Where the session key goes *)

C21_NamingKeyDerived ==
    \A k \in 1..Len(viewers) :
        /\ viewers[k].layer # "failed"
        /\ viewers[k].layer = "added" =>
              layerKey = hkdf(atob(KeyString(storedKey)).bytes, <<>>,
                              <<"n", "a", "m", "e", "s">>)

\* Viewers (or maps) instantiated in element p.
SinksIn(p) == {k \in 1..Len(viewers) : viewers[k].container = p}

\* C22: for each panorama or map element at most one fetch is started and at
\* most one rendering sink is instantiated in it, whatever the interleaving
\* of visibility callbacks and completions.
C22_OneSinkPerElement ==
    \A p \in Panos : fetchedFor[p] <= 1 /\ Cardinality(SinksIn(p)) <= 1

\* C23: with the viewer kept in the module's variable, the ready handler
\* registered for a viewer operates on that same viewer: a viewer is only
\* ever configured by its own handler, and a viewer that is ready has been.
C23_ReadyHandlerOwnViewer ==
    SharedViewer /\ rich = "panorama" =>
        \A k \in 1..Len(viewers) :
            /\ viewers[k].configured \in {0, k}
            /\ viewers[k].ready => viewers[k].configured = k

\* C24: a handle is never installed as an image's source after it has been
\* revoked, and it is not revoked while an image that has it as source has
\* not finished loading it; in particular an image served from the eager
\* loader's cache holds a handle that is still valid.
C24_SharedHandleValidUntilLoaded ==
    [][loader = "eager" =>
         /\ \A i \in Images : loading'[i] => ~handles'[src'[i]].revoked
         /\ \A i \in Images :
               src'[i] # src[i] /\ src'[i] \in DOMAIN handles
                   => ~handles[src'[i]].revoked]_vars

\* C25: every key the capture step accepts and stores can be imported by the
\* codec: after a capture that stored the fragment, constructing the
\* Decryptor from the stored string succeeds.
C25_AcceptedKeyImports ==
    captured => ImportError(storedKey) = "none"

\* C26: over any sequence of page loads of one session the stored key changes
\* only in the capture step of a load whose fragment passes validation, and
\* then to that fragment, so that it is absent or the most recent valid
\* fragment; and the root document of a load is shown exactly when it
\* decrypts under the key stored at that time.
C26_StoredKeyIsLastValidFragment ==
    [][/\ storedKey' = IF pc = "script" /\ pc' = "loaded"
                             /\ fragment # <<>> /\ isValidKey(variant, fragment)
                       THEN fragment ELSE storedKey
       /\ pc = "decrypting" =>
             (pc' = "shown") = DecryptOk(variant, storedKey, response)]_vars

\* A later page load whose fragment is absent or invalid has been decrypted
\* with the key an earlier load stored.
C26_ShownWithEarlierKey ==
    /\ pc = "shown"
    /\ ~captured
    /\ ~isValidKey(variant, fragment)
    /\ storedKey = PublisherKey(variant)

\* C27: an image whose source the loader has set has no pending marker, and
\* its source is a handle made by a successful authenticated decryption of
\* the locator the image declared; an image that still has its marker has
\* no source.
C27_SourceIsDeclaredLocatorDecrypted ==
    \A i \in Images :
        /\ src[i] # 0 =>
              /\ ~marker[i]
              /\ src[i] \in DOMAIN handles
              /\ handles[src[i]].url = decl[i]
              /\ decrypt(handles[src[i]].from)
        /\ marker[i] => src[i] = 0

\* An image has as source a handle that was fetched for another image of
\* the same locator, in each of the loaders.
C27_ServedByAnothersHandle ==
    \E i \in Images : src[i] # 0 /\ handles[src[i]].owner # i

\* A viewer (or a map) has been made in element p.
Rendered(p) == SinksIn(p) # {}

\* C28: every pending panorama that is visible is eventually rendered unless
\* its fetch or decryption fails, also when it was passed over in its batch
\* because an earlier entry was loaded first and its visibility does not
\* change again.
C28_VisiblePendingEventuallyRendered ==
    \A p \in Panos :
        (visible[p] /\ pmarker[p]) ~>
            (Rendered(p) \/ ~visible[p] \/ HasFailed(PanoLocator(p)))

============================================================================
